---- MODULE Spec2Model ----
(***************************************************************************)
(* Vendor_Payments.py: a linear analysis script over one in-memory table.  *)
(* A table is a sequence of column names and a sequence of rows; a row     *)
(* keeps its index label and one cell per column.  A string is a sequence  *)
(* of one-character strings, so that strip, title and replace are computed *)
(* character by character as the library computes them.                    *)
(***************************************************************************)
EXTENDS Integers, Sequences, FiniteSets, TLC

VARIABLES file, pc, error, df, again, report, vendor_totals, trend, anomalies,
          freq, heat, out_totals, out_anomalies

vars == <<file, pc, error, df, again, report, vendor_totals, trend, anomalies,
          freq, heat, out_totals, out_anomalies>>

---------------------------------------------------------------------------
(* Characters and strings                                                  *)

Lowers == <<"a", "b", "c", "d", "e">>
Uppers == <<"A", "B", "C", "D", "E">>
Digits == <<"0", "1", "2", "3", "4", "5", "6", "7", "8", "9">>

InSeq(seq, c) == \E i \in 1..Len(seq) : seq[i] = c
IndexOf(seq, c) == CHOOSE i \in 1..Len(seq) : seq[i] = c

IsSpace(c) == c = " "
IsLowerCh(c) == InSeq(Lowers, c)
IsUpperCh(c) == InSeq(Uppers, c)
IsCased(c) == IsLowerCh(c) \/ IsUpperCh(c)
IsDigit(c) == InSeq(Digits, c)
DigitVal(c) == IndexOf(Digits, c) - 1

ToUpper(c) == IF IsLowerCh(c) THEN Uppers[IndexOf(Lowers, c)] ELSE c
ToLower(c) == IF IsUpperCh(c) THEN Lowers[IndexOf(Uppers, c)] ELSE c

\* Code point order of the characters the model uses.
CharCode(c) ==
    IF IsSpace(c) THEN 32
    ELSE IF c = "-" THEN 45
    ELSE IF IsDigit(c) THEN 48 + DigitVal(c)
    ELSE IF IsUpperCh(c) THEN 64 + IndexOf(Uppers, c)
    ELSE IF c = "_" THEN 95
    ELSE IF IsLowerCh(c) THEN 96 + IndexOf(Lowers, c)
    ELSE 120

RECURSIVE LStrip(_)
LStrip(s) == IF s # <<>> /\ IsSpace(Head(s)) THEN LStrip(Tail(s)) ELSE s

RECURSIVE RStrip(_)
RStrip(s) ==
    IF s # <<>> /\ IsSpace(s[Len(s)]) THEN RStrip(SubSeq(s, 1, Len(s) - 1)) ELSE s

\* str.strip(): leading and trailing whitespace removed.
str_strip(s) == RStrip(LStrip(s))

\* str.title(): a cased character is upper-cased when the character before it
\* is not cased (or it is the first), lower-cased otherwise.
str_title(s) ==
    [i \in 1..Len(s) |->
        IF i = 1 \/ ~IsCased(s[i - 1]) THEN ToUpper(s[i]) ELSE ToLower(s[i])]

\* str.replace(" ", "_")
str_replace(s) == [i \in 1..Len(s) |-> IF s[i] = " " THEN "_" ELSE s[i]]

\* Lexicographic order of strings by code point.
RECURSIVE LexLess(_, _)
LexLess(s, t) ==
    IF t = <<>> THEN FALSE
    ELSE IF s = <<>> THEN TRUE
    ELSE IF CharCode(Head(s)) # CharCode(Head(t))
         THEN CharCode(Head(s)) < CharCode(Head(t))
    ELSE LexLess(Tail(s), Tail(t))

---------------------------------------------------------------------------
(* Cells: a missing value (NaN/NaT), a string, a number or a timestamp.    *)

NaN == [t |-> "nan", n |-> 0, s |-> <<>>]
StrCell(s) == [t |-> "str", n |-> 0, s |-> s]
NumCell(n) == [t |-> "num", n |-> n, s |-> <<>>]
DateCell(d) == [t |-> "date", n |-> d, s |-> <<>>]

isna(c) == c.t = "nan"

VENDOR == <<"VENDOR">>
CHKSUBTOT == <<"CHKSUBTOT">>
RUNDATE == <<"RUNDATE">>
DEPARTMENT == <<"DEPARTMENT">>

Frame(columns, rows) == [ok |-> TRUE, err |-> "", columns |-> columns, rows |-> rows]
Raised(e) == [ok |-> FALSE, err |-> e, columns |-> <<>>, rows |-> <<>>]
NoFrame == Raised("none")

HasColumn(d, name) == InSeq(d.columns, name)
ColIdx(d, name) == IndexOf(d.columns, name)
Cell(d, r, name) == r.cells[ColIdx(d, name)]

\* A dropna that drops a row only when all the named columns are missing.
dropna_how_all(d, names) ==
    LET Keep(r) == \E name \in names : ~isna(Cell(d, r, name))
    IN  [d EXCEPT !.rows = SelectSeq(d.rows, Keep)]

\* df.dropna(subset=names): the rows with no missing value in the named columns.
dropna(d, names) ==
    LET Keep(r) == \A name \in names : ~isna(Cell(d, r, name))
    IN  [d EXCEPT !.rows = SelectSeq(d.rows, Keep)]

---------------------------------------------------------------------------
(* Conversions                                                             *)

RECURSIVE DecimalValue(_)
DecimalValue(s) ==
    IF s = <<>> THEN 0
    ELSE 10 * DecimalValue(SubSeq(s, 1, Len(s) - 1)) + DigitVal(s[Len(s)])

AllDigits(s) == s # <<>> /\ \A i \in 1..Len(s) : IsDigit(s[i])

IsLeap(y) == (y % 4 = 0 /\ y % 100 # 0) \/ y % 400 = 0
DaysIn(y, m) ==
    IF m = 2 THEN (IF IsLeap(y) THEN 29 ELSE 28)
    ELSE IF m \in {4, 6, 9, 11} THEN 30 ELSE 31

\* A date text "YYYY-MM-DD" as the timestamp YYYYMMDD; anything else is NaT.
ParseDate(s) ==
    IF Len(s) = 10 /\ s[5] = "-" /\ s[8] = "-"
       /\ AllDigits(SubSeq(s, 1, 4)) /\ AllDigits(SubSeq(s, 6, 7))
       /\ AllDigits(SubSeq(s, 9, 10))
    THEN LET y == DecimalValue(SubSeq(s, 1, 4))
             m == DecimalValue(SubSeq(s, 6, 7))
             d == DecimalValue(SubSeq(s, 9, 10))
         IN  IF y >= 1 /\ m \in 1..12 /\ d >= 1 /\ d <= DaysIn(y, m)
             THEN DateCell(y * 10000 + m * 100 + d)
             ELSE NaN
    ELSE NaN

\* pd.to_datetime(x, errors='coerce') on one element.
to_datetime(c) ==
    IF c.t = "str" THEN ParseDate(c.s)
    ELSE IF c.t = "num" THEN DateCell(19700101)
    ELSE c

\* A numeric text: an optional sign and decimal digits.
ParseNumber(s) ==
    IF AllDigits(s) THEN NumCell(DecimalValue(s))
    ELSE IF s # <<>> /\ Head(s) = "-" /\ AllDigits(Tail(s))
         THEN NumCell(0 - DecimalValue(Tail(s)))
    ELSE NaN

\* pd.to_numeric(x, errors='coerce') on one element.
to_numeric(c) ==
    IF c.t = "str" THEN ParseNumber(c.s)
    ELSE IF c.t = "date" THEN NumCell(c.n)
    ELSE c

\* Series.str.strip().str.title() on one element: the .str accessor gives
\* NaN for an element that is not a string.
strip_title(c) == IF c.t = "str" THEN StrCell(str_title(str_strip(c.s))) ELSE NaN

\* df[name] = f(df[name]), element by element; f is named by the call.
Convert(f, c) ==
    IF f = "to_datetime" THEN to_datetime(c)
    ELSE IF f = "to_numeric" THEN to_numeric(c)
    ELSE strip_title(c)

MapColumn(d, name, f) ==
    LET k == ColIdx(d, name)
    IN  [d EXCEPT !.rows =
            [i \in 1..Len(d.rows) |->
                [d.rows[i] EXCEPT !.cells[k] = Convert(f, d.rows[i].cells[k])]]]

\* The .str accessor exists on an object column only: the reader gives a
\* column the object dtype when one of its cells is a text (or it has no cell).
IsObjectColumn(d, name) ==
    d.rows = <<>> \/ \E i \in 1..Len(d.rows) : Cell(d, d.rows[i], name).t = "str"

---------------------------------------------------------------------------
(* clean_data                                                              *)

normalize_columns(d) ==
    [d EXCEPT !.columns = [i \in 1..Len(d.columns) |-> str_replace(str_strip(d.columns[i]))]]

parse_rundate(d) ==
    IF HasColumn(d, RUNDATE) THEN MapColumn(d, RUNDATE, "to_datetime") ELSE d

\* A required-field filter that leaves the run-date out.
RequiredFields_without_rundate == {VENDOR, CHKSUBTOT}

RequiredFields == {VENDOR, CHKSUBTOT, RUNDATE}

\* A clean_data that coerces the amounts and keeps the rows whose coercion failed.
clean_data_keeps_failed(d) ==
    LET d1 == normalize_columns(d)
        d2 == parse_rundate(d1)
    IN  IF ~HasColumn(d2, VENDOR) THEN Raised("KeyError: VENDOR")
        ELSE IF ~IsObjectColumn(d2, VENDOR) THEN Raised("AttributeError: str")
        ELSE LET d3 == MapColumn(d2, VENDOR, "strip_title")
             IN  IF \E name \in RequiredFields : ~HasColumn(d3, name)
                 THEN Raised("KeyError: dropna")
                 ELSE MapColumn(dropna(d3, RequiredFields), CHKSUBTOT, "to_numeric")

clean_data(d) ==
    LET d1 == normalize_columns(d)
        d2 == parse_rundate(d1)
    IN  IF ~HasColumn(d2, VENDOR) THEN Raised("KeyError: VENDOR")
        ELSE IF ~IsObjectColumn(d2, VENDOR) THEN Raised("AttributeError: str")
        ELSE LET d3 == MapColumn(d2, VENDOR, "strip_title")
             IN  IF \E name \in RequiredFields : ~HasColumn(d3, name)
                 THEN Raised("KeyError: dropna")
                 ELSE LET d4 == dropna(d3, RequiredFields)
                          d5 == MapColumn(d4, CHKSUBTOT, "to_numeric")
                      IN  dropna(d5, {CHKSUBTOT})

---------------------------------------------------------------------------
(* The analyses of a cleaned table.  A Series is a sequence of entries     *)
(* [key, val] in its own order.                                            *)

Vendor(d, r) == Cell(d, r, VENDOR).s
Amount(d, r) == Cell(d, r, CHKSUBTOT).n

\* The sum of the amounts of the rows, by halves.
RECURSIVE SumAmounts(_, _)
SumAmounts(d, rows) ==
    IF rows = <<>> THEN 0
    ELSE IF Len(rows) = 1 THEN Amount(d, rows[1])
    ELSE LET mid == Len(rows) \div 2
         IN  SumAmounts(d, SubSeq(rows, 1, mid)) + SumAmounts(d, SubSeq(rows, mid + 1, Len(rows)))

\* The keys of a grouping in ascending order (groupby sorts its keys).
RECURSIVE SortKeys(_)
SortKeys(S) ==
    IF S = {} THEN <<>>
    ELSE LET m == CHOOSE x \in S : \A y \in S \ {x} : LexLess(x, y)
         IN  <<m>> \o SortKeys(S \ {m})

\* A grouping drops the rows whose key is missing.
GroupKeys(d, name) ==
    {Cell(d, d.rows[i], name).s : i \in {j \in 1..Len(d.rows) : ~isna(Cell(d, d.rows[j], name))}}

RowsOf(d, v) == LET Is(r) == ~isna(Cell(d, r, VENDOR)) /\ Vendor(d, r) = v
                IN  SelectSeq(d.rows, Is)

\* A grouping that keeps the first amount of each vendor (aggregate 'first').
groupby_first(d) ==
    LET keys == SortKeys(GroupKeys(d, VENDOR))
    IN  [i \in 1..Len(keys) |-> [key |-> keys[i], val |-> Amount(d, Head(RowsOf(d, keys[i])))]]

\* df.groupby('VENDOR')['CHKSUBTOT'].sum()
groupby_sum(d) ==
    LET keys == SortKeys(GroupKeys(d, VENDOR))
    IN  [i \in 1..Len(keys) |-> [key |-> keys[i], val |-> SumAmounts(d, RowsOf(d, keys[i]))]]

\* df['VENDOR'].value_counts(), before its sort.
group_size(d) ==
    LET keys == SortKeys(GroupKeys(d, VENDOR))
    IN  [i \in 1..Len(keys) |-> [key |-> keys[i], val |-> Len(RowsOf(d, keys[i]))]]

Entries(series) == {series[i] : i \in 1..Len(series)}

\* sort_values(ascending=False): the orders a descending sort may return; the
\* default sort is not stable, so entries of equal value come in any order.
RECURSIVE DescOrders(_)
DescOrders(S) ==
    IF S = {} THEN {<<>>}
    ELSE LET tops == {e \in S : \A f \in S : f.val <= e.val}
         IN  UNION {{<<e>> \o t : t \in DescOrders(S \ {e})} : e \in tops}

sort_values_desc(series) == DescOrders(Entries(series))

\* A total_payments_by_vendor that returns the head it prints.
total_payments_by_vendor_head(d) ==
    {SubSeq(t, 1, IF Len(t) < 20 THEN Len(t) ELSE 20) : t \in sort_values_desc(groupby_sum(d))}

total_payments_by_vendor(d) == sort_values_desc(groupby_sum(d))

payment_frequency(d) == sort_values_desc(group_size(d))

\* Series.quantile(0.99), times 100: linear interpolation between the order
\* statistics around position 0.99 * (n - 1).  Of no value, it is NaN.
Amounts(d) == [i \in 1..Len(d.rows) |-> Amount(d, d.rows[i])]

quantile99(d) ==
    LET a  == SortSeq(Amounts(d), LAMBDA x, y : x < y)
        n  == Len(a)
        lo == (99 * (n - 1)) \div 100
        fr == (99 * (n - 1)) % 100
        hi == IF lo + 1 < n THEN lo + 1 ELSE lo
    IN  100 * a[lo + 1] + fr * (a[hi + 1] - a[lo + 1])

\* An anomaly filter that also returns the rows at the threshold.
detect_anomalies_inclusive(d) ==
    LET threshold == quantile99(d)
        Above(r)  == d.rows # <<>> /\ 100 * Amount(d, r) >= threshold
    IN  [d EXCEPT !.rows = SelectSeq(d.rows, Above)]

\* df[df['CHKSUBTOT'] > threshold]; a comparison with NaN is false.
detect_anomalies(d) ==
    LET threshold == quantile99(d)
        Above(r)  == d.rows # <<>> /\ 100 * Amount(d, r) > threshold
    IN  [d EXCEPT !.rows = SelectSeq(d.rows, Above)]

\* df.set_index('RUNDATE').resample('ME')['CHKSUBTOT'].sum(): one entry per
\* calendar month from the first to the last month of the table.
MonthOf(c) == (c.n \div 10000) * 12 + ((c.n \div 100) % 100) - 1

monthly_sums(d) ==
    LET months == {MonthOf(Cell(d, d.rows[i], RUNDATE)) : i \in 1..Len(d.rows)}
        first  == CHOOSE m \in months : \A k \in months : m <= k
        last   == CHOOSE m \in months : \A k \in months : k <= m
        In(m)  == LET Is(r) == MonthOf(Cell(d, r, RUNDATE)) = m IN SelectSeq(d.rows, Is)
    IN  IF d.rows = <<>> THEN <<>>
        ELSE [i \in 1..(last - first + 1) |->
                 [key |-> first + i - 1, val |-> SumAmounts(d, In(first + i - 1))]]

\* The keys of a column in the order of their first appearance in the table.
FirstPos(d, name, v) ==
    LET at == {i \in 1..Len(d.rows) : Cell(d, d.rows[i], name) = StrCell(v)}
    IN  CHOOSE i \in at : \A j \in at : i <= j

RECURSIVE ByFirstPos(_, _, _)
ByFirstPos(d, name, K) ==
    IF K = {} THEN <<>>
    ELSE LET v == CHOOSE x \in K : \A y \in K : FirstPos(d, name, x) <= FirstPos(d, name, y)
         IN  <<v>> \o ByFirstPos(d, name, K \ {v})

FirstSeen(d, name) == ByFirstPos(d, name, GroupKeys(d, name))

HeadRows == 20

\* A pivot whose rows come in the order of first appearance (an unsorted grouping).
pivot_table_unsorted(d) ==
    LET Both(r) == ~isna(Cell(d, r, VENDOR)) /\ ~isna(Cell(d, r, DEPARTMENT))
        kept    == [d EXCEPT !.rows = SelectSeq(d.rows, Both)]
        vs      == FirstSeen(kept, VENDOR)
        ds      == SortKeys(GroupKeys(kept, DEPARTMENT))
        Pair(v, p) == LET Is(r) == Vendor(kept, r) = v /\ Cell(kept, r, DEPARTMENT).s = p
                      IN  SelectSeq(kept.rows, Is)
    IN  [index |-> vs, columns |-> ds,
         values |-> [i \in 1..Len(vs) |-> [j \in 1..Len(ds) |->
                        SumAmounts(kept, Pair(vs[i], ds[j]))]]]

\* pivot_table(index='VENDOR', columns='DEPARTMENT', values='CHKSUBTOT',
\* aggfunc='sum', fill_value=0): rows and columns in ascending key order, from
\* the rows of the table whose vendor and department are both present.

pivot_table(d) ==
    LET Both(r) == ~isna(Cell(d, r, VENDOR)) /\ ~isna(Cell(d, r, DEPARTMENT))
        kept    == [d EXCEPT !.rows = SelectSeq(d.rows, Both)]
        vs      == SortKeys(GroupKeys(kept, VENDOR))
        ds      == SortKeys(GroupKeys(kept, DEPARTMENT))
        Pair(v, p) == LET Is(r) == Vendor(kept, r) = v /\ Cell(kept, r, DEPARTMENT).s = p
                      IN  SelectSeq(kept.rows, Is)
    IN  [index |-> vs, columns |-> ds,
         values |-> [i \in 1..Len(vs) |-> [j \in 1..Len(ds) |->
                        SumAmounts(kept, Pair(vs[i], ds[j]))]]]

\* pivot.head(20)
head(p, k) ==
    LET m == IF Len(p.index) < k THEN Len(p.index) ELSE k
    IN  [p EXCEPT !.index = SubSeq(p.index, 1, m), !.values = SubSeq(p.values, 1, m)]

Shown(p) == [shown |-> TRUE, index |-> p.index, columns |-> p.columns, values |-> p.values]
NoChart == [shown |-> FALSE, index |-> <<>>, columns |-> <<>>, values |-> <<>>]

Plot(series) == [shown |-> TRUE, series |-> series]
NoPlot == [shown |-> FALSE, series |-> <<>>]

Written(content) == [written |-> TRUE, content |-> content]
NotWritten == [written |-> FALSE, content |-> <<>>]

\* df.isnull().sum(): the missing values of each column.
missing_values(d) ==
    [k \in 1..Len(d.columns) |->
        Cardinality({i \in 1..Len(d.rows) : isna(d.rows[i].cells[k])})]

---------------------------------------------------------------------------
(* Input files                                                             *)

Text(s) == StrCell(s)

\* A file layout: the column names as the file spells them, and what each
\* column holds.
Layout(names, roles) == [names |-> names, roles |-> roles]

FileOf(layout, base) ==
    Frame(layout.names,
          [i \in 1..Len(base) |->
              [idx |-> i - 1,
               cells |-> [k \in 1..Len(layout.roles) |-> base[i][layout.roles[k]]]]])

Record(v, a, d, p) == [vendor |-> v, amount |-> a, rundate |-> d, department |-> p]

SeqsUpTo(S, n) == UNION {[1..k -> S] : k \in 0..n}

Missing == Raised("FileNotFoundError")

Jan15 == <<"2", "0", "2", "4", "-", "0", "1", "-", "1", "5">>
Feb29 == <<"2", "0", "2", "4", "-", "0", "2", "-", "2", "9">>
Mar01 == <<"2", "0", "2", "4", "-", "0", "3", "-", "0", "1">>
Feb30 == <<"2", "0", "2", "4", "-", "0", "2", "-", "3", "0">>

MaxRows == 2

Layouts ==
    { Layout(<<VENDOR, CHKSUBTOT, RUNDATE, DEPARTMENT>>,
             <<"vendor", "amount", "rundate", "department">>),
      Layout(<<<<" ", "VENDOR">>, <<"CHKSUBTOT", " ">>, <<" ", "RUNDATE", " ">>>>,
             <<"vendor", "amount", "rundate">>),
      Layout(<<VENDOR, CHKSUBTOT, <<"RUN", " ", "DATE">>>>,
             <<"vendor", "amount", "rundate">>),
      Layout(<<VENDOR, CHKSUBTOT, DEPARTMENT>>, <<"vendor", "amount", "department">>),
      Layout(<<CHKSUBTOT, RUNDATE>>, <<"amount", "rundate">>),
      Layout(<<CHKSUBTOT, DEPARTMENT>>, <<"amount", "department">>),
      Layout(<<VENDOR, RUNDATE>>, <<"vendor", "rundate">>) }

Records ==
    { Record(Text(<<"a", "b">>), NumCell(10), Text(Jan15), Text(<<"B">>)),
      Record(Text(<<"c", "D", " ">>), Text(<<"2", "0">>), Text(Mar01), Text(<<"C">>)),
      Record(Text(<<"a", "b">>), NumCell(10), Text(Feb30), NaN),
      Record(NaN, NumCell(30), Text(Jan15), Text(<<"B">>)),
      Record(Text(<<"c", "d">>), Text(<<"x">>), Text(Jan15), Text(<<"C">>)),
      Record(Text(<<"e">>), NumCell(5), Text(Feb29), NaN) }

\* The reader gives a column one type: its cells, the missing ones aside, are
\* all texts or all numbers.
ReaderTyped(d) ==
    \A k \in 1..Len(d.columns) : \A i, j \in 1..Len(d.rows) :
        LET a == d.rows[i].cells[k]
            b == d.rows[j].cells[k]
        IN  isna(a) \/ isna(b) \/ a.t = b.t

Files ==
    {Missing} \cup
    {f \in {FileOf(l, b) : l \in Layouts, b \in SeqsUpTo(Records, MaxRows)} : ReaderTyped(f)}

---------------------------------------------------------------------------
(* run_analysis                                                            *)

Fresh ==
    /\ error = ""
    /\ again = NoFrame
    /\ report = <<>>
    /\ vendor_totals = <<>>
    /\ trend = NoPlot
    /\ anomalies = NoFrame
    /\ freq = <<>>
    /\ heat = NoChart
    /\ out_totals = NotWritten
    /\ out_anomalies = NotWritten

Init ==
    /\ file \in Files
    /\ pc = "load"
    /\ df = NoFrame
    /\ Fresh

Fail(e) ==
    /\ pc' = "failed"
    /\ error' = e

\* df = load_data(file_path)
Load ==
    /\ pc = "load"
    /\ IF file.ok
       THEN /\ df' = file
            /\ pc' = "clean"
            /\ UNCHANGED error
       ELSE /\ Fail(file.err)
            /\ UNCHANGED df
    /\ UNCHANGED <<file, again, report, vendor_totals, trend, anomalies, freq, heat,
                   out_totals, out_anomalies>>

\* df = clean_data(df)
Clean ==
    /\ pc = "clean"
    /\ LET c == clean_data(df)
       IN  IF c.ok
           THEN /\ df' = c
                /\ pc' = "summary"
                /\ UNCHANGED error
           ELSE /\ Fail(c.err)
                /\ UNCHANGED df
    /\ UNCHANGED <<file, again, report, vendor_totals, trend, anomalies, freq, heat,
                   out_totals, out_anomalies>>

\* generate_summary(df)
Summary ==
    /\ pc = "summary"
    /\ report' = missing_values(df)
    /\ pc' = "totals"
    /\ UNCHANGED <<file, error, df, again, vendor_totals, trend, anomalies, freq, heat,
                   out_totals, out_anomalies>>

\* vendor_totals = total_payments_by_vendor(df)
Totals ==
    /\ pc = "totals"
    /\ \E s \in total_payments_by_vendor(df) : vendor_totals' = s
    /\ pc' = "trend"
    /\ UNCHANGED <<file, error, df, again, report, trend, anomalies, freq, heat,
                   out_totals, out_anomalies>>

\* monthly_trend(df)
Trend ==
    /\ pc = "trend"
    /\ trend' = Plot(monthly_sums(df))
    /\ pc' = "anomalies"
    /\ UNCHANGED <<file, error, df, again, report, vendor_totals, anomalies, freq, heat,
                   out_totals, out_anomalies>>

\* anomalies = detect_anomalies(df)
Anomalies ==
    /\ pc = "anomalies"
    /\ anomalies' = detect_anomalies(df)
    /\ pc' = "frequency"
    /\ UNCHANGED <<file, error, df, again, report, vendor_totals, trend, freq, heat,
                   out_totals, out_anomalies>>

\* payment_frequency(df)
Frequency ==
    /\ pc = "frequency"
    /\ \E s \in payment_frequency(df) : freq' = s
    /\ pc' = "heatmap"
    /\ UNCHANGED <<file, error, df, again, report, vendor_totals, trend, anomalies, heat,
                   out_totals, out_anomalies>>

\* A heatmap without the column check: the pivot of a missing column raises.
department_vendor_heatmap_unguarded(d) ==
    IF HasColumn(d, DEPARTMENT)
    THEN LET p == pivot_table(d)
         IN  IF p.index = <<>> THEN [ok |-> FALSE, chart |-> NoChart]
             ELSE [ok |-> TRUE, chart |-> Shown(head(p, HeadRows))]
    ELSE [ok |-> FALSE, chart |-> NoChart]

\* department_vendor_heatmap(df); the heatmap of an empty pivot raises (the
\* colour range is a minimum over no value).
department_vendor_heatmap(d) ==
    IF HasColumn(d, DEPARTMENT)
    THEN LET p == pivot_table(d)
         IN  IF p.index = <<>> THEN [ok |-> FALSE, chart |-> NoChart]
             ELSE [ok |-> TRUE, chart |-> Shown(head(p, HeadRows))]
    ELSE [ok |-> TRUE, chart |-> NoChart]

\* A heatmap stage whose failure is swallowed: the run goes on to the writes.
Heatmap_swallows ==
    /\ pc = "heatmap"
    /\ LET h == department_vendor_heatmap(df)
       IN  /\ heat' = h.chart
           /\ pc' = "write_totals"
           /\ error' = IF h.ok THEN error ELSE "ValueError"
    /\ UNCHANGED <<file, df, again, report, vendor_totals, trend, anomalies, freq,
                   out_totals, out_anomalies>>

Heatmap ==
    /\ pc = "heatmap"
    /\ LET h == department_vendor_heatmap(df)
       IN  IF h.ok
           THEN /\ heat' = h.chart
                /\ pc' = "write_totals"
                /\ UNCHANGED error
           ELSE /\ Fail("ValueError")
                /\ UNCHANGED heat
    /\ UNCHANGED <<file, df, again, report, vendor_totals, trend, anomalies, freq,
                   out_totals, out_anomalies>>

\* vendor_totals.to_csv("total_payments_by_vendor.csv")
WriteTotals ==
    /\ pc = "write_totals"
    /\ out_totals' = Written(vendor_totals)
    /\ pc' = "write_anomalies"
    /\ UNCHANGED <<file, error, df, again, report, vendor_totals, trend, anomalies, freq,
                   heat, out_anomalies>>

\* anomalies.to_csv("anomalous_payments.csv")
WriteAnomalies ==
    /\ pc = "write_anomalies"
    /\ out_anomalies' = Written(anomalies.rows)
    /\ pc' = "done"
    /\ UNCHANGED <<file, error, df, again, report, vendor_totals, trend, anomalies, freq,
                   heat, out_totals>>

Next ==
    \/ Load
    \/ Clean
    \/ Summary
    \/ Totals
    \/ Trend
    \/ Anomalies
    \/ Frequency
    \/ Heatmap
    \/ WriteTotals
    \/ WriteAnomalies

Spec == Init /\ [][Next]_vars

---------------------------------------------------------------------------
(* clean_data on its own, applied to a raw table and then to its result    *)

MaxCleanRows == 2

RawLayout ==
    Layout(<<<<" ", "VENDOR">>, <<"CHKSUBTOT", " ">>, <<" ", "RUNDATE", " ">>>>,
           <<"vendor", "amount", "rundate">>)

RawVendors ==
    {NaN, NumCell(7), Text(<<" ">>), Text(<<" ", "a", "B", " ", "c", " ">>), Text(<<"D", "e">>)}
RawAmounts == {NaN, NumCell(10), Text(<<"2", "0">>), Text(<<"x">>)}
RawDates == {NaN, Text(Jan15), Text(Feb30)}

RawRecords == {Record(v, a, d, NaN) : v \in RawVendors, a \in RawAmounts, d \in RawDates}

RawTables ==
    {f \in {FileOf(RawLayout, b) : b \in SeqsUpTo(RawRecords, MaxCleanRows)} : ReaderTyped(f)}

InitClean ==
    /\ file \in RawTables
    /\ pc = "clean"
    /\ df = file
    /\ Fresh

\* clean_data(clean_data(T))
CleanAgain ==
    /\ pc = "summary"
    /\ again' = clean_data(df)
    /\ pc' = "twice"
    /\ UNCHANGED <<file, error, df, report, vendor_totals, trend, anomalies, freq, heat,
                   out_totals, out_anomalies>>

NextClean ==
    \/ Clean
    \/ CleanAgain

SpecClean == InitClean /\ [][NextClean]_vars

---------------------------------------------------------------------------
(* The analyses on small tables and on tables built to a known shape       *)

MaxAggRows == 3

SmallRecords ==
    {Record(Text(v), NumCell(a), Text(Jan15), p) :
        v \in {<<"b", "a">>, <<"a", "b", " ">>},
        a \in {10, 0 - 5},
        p \in {NaN, Text(<<"B">>)}}

FullLayout ==
    Layout(<<VENDOR, CHKSUBTOT, RUNDATE, DEPARTMENT>>,
           <<"vendor", "amount", "rundate", "department">>)

\* The k-th vendor name as a file spells it: lower case, a trailing blank.
RawName(k) ==
    <<Lowers[(k \div 25) + 1], Lowers[((k \div 5) % 5) + 1], Lowers[(k % 5) + 1], " ">>

\* Row i of a built table belongs to vendor Tri(i): vendor k has k + 1 rows,
\* the last vendor the rest.
Tri(i) == CHOOSE k \in 0..i : (k * (k + 1)) \div 2 < i /\ i <= ((k + 1) * (k + 2)) \div 2

MaxK == 3

\* A table of n rows with distinct amounts, rising or falling along the rows,
\* the rows in this order or reversed; every eighth vendor has no department.
Built(n, rising, reversed) ==
    LET Row(i) ==
            Record(Text(RawName(Tri(i))),
                   NumCell(IF rising THEN i ELSE n + 1 - i),
                   Text(IF i % 3 = 0 THEN Jan15 ELSE IF i % 3 = 1 THEN Feb29 ELSE Mar01),
                   IF Tri(i) % 8 = 2 THEN NaN
                   ELSE IF i % 2 = 0 THEN Text(<<"B">>) ELSE Text(<<"C">>))
    IN  [i \in 1..n |-> Row(IF reversed THEN n + 1 - i ELSE i)]

AggFiles ==
    {FileOf(FullLayout, b) : b \in SeqsUpTo(SmallRecords, MaxAggRows)}
    \cup {FileOf(FullLayout, Built(100 * k, up, rev)) :
            k \in 1..MaxK, up \in BOOLEAN, rev \in BOOLEAN}

InitAgg ==
    /\ file \in AggFiles
    /\ pc = "load"
    /\ df = NoFrame
    /\ Fresh

SpecAgg == InitAgg /\ [][Next]_vars

---------------------------------------------------------------------------
(* Properties of clean_data                                                *)

Cleaned == pc \in {"summary", "twice"}

\* The raw row with index label i is a row of the cleaned table.
Survives(i) == \E j \in 1..Len(df.rows) : df.rows[j].idx = i

\* The required fields of a raw row: vendor, amount and run-date present (the
\* run-date after parsing), and the amount numeric after coercion.
RequiredPresent(r) ==
    LET raw == normalize_columns(file)
    IN  /\ ~isna(Cell(raw, r, VENDOR))
        /\ ~isna(Cell(raw, r, CHKSUBTOT))
        /\ ~isna(to_datetime(Cell(raw, r, RUNDATE)))
        /\ to_numeric(Cell(raw, r, CHKSUBTOT)).t = "num"

\* C1: a raw row is in the cleaned table if and only if its vendor, amount and
\* run-date are present (the run-date after parsing) and its amount is numeric
\* after coercion; the cleaned table has no more rows than the raw table and
\* holds no row twice.
C1_SurvivesIffRequired ==
    Cleaned =>
        /\ \A i \in 1..Len(file.rows) :
               Survives(file.rows[i].idx) <=> RequiredPresent(file.rows[i])
        /\ Len(df.rows) <= Len(file.rows)
        /\ \A j, k \in 1..Len(df.rows) : df.rows[j].idx = df.rows[k].idx => j = k

C1_Witness ==
    /\ pc = "summary"
    /\ Len(file.rows) = 2
    /\ Len(df.rows) = 1
    /\ \E i \in 1..2 : /\ ~Survives(file.rows[i].idx)
                       /\ file.rows[i].cells[2] = Text(<<"x">>)

\* C2: cleaning a cleaned table changes nothing: the same column names, the
\* same rows with the same index labels, vendors, amounts and dates.
C2_Idempotent == pc = "twice" => again = df

C2_Witness ==
    /\ pc = "twice"
    /\ again.ok
    /\ Len(again.rows) = 1
    /\ Len(file.rows) = 2
    /\ again.columns # file.columns
    /\ Vendor(again, again.rows[1]) = <<"A", "b", " ", "C">>

IsTrimmed(s) == s = <<>> \/ (~IsSpace(s[1]) /\ ~IsSpace(s[Len(s)]))
IsTitled(s) ==
    \A i \in 1..Len(s) :
        /\ IsLowerCh(s[i]) => (i > 1 /\ IsCased(s[i - 1]))
        /\ IsUpperCh(s[i]) => (i = 1 \/ ~IsCased(s[i - 1]))

\* C3: every record of the cleaned table has a vendor that is a trimmed,
\* title-cased, non-empty string, a numeric amount and a run-date.
C3_VendorNonEmpty ==
    Cleaned =>
        \A j \in 1..Len(df.rows) :
            LET r == df.rows[j]
            IN  /\ Cell(df, r, VENDOR).t = "str"
                /\ IsTrimmed(Vendor(df, r))
                /\ IsTitled(Vendor(df, r))
                /\ Vendor(df, r) # <<>>
                /\ Cell(df, r, CHKSUBTOT).t = "num"
                /\ Cell(df, r, RUNDATE).t = "date"

---------------------------------------------------------------------------
(* Properties of run_analysis                                              *)

StageOrder ==
    <<"load", "clean", "summary", "totals", "trend", "anomalies", "frequency",
      "heatmap", "write_totals", "write_anomalies", "done">>

Pos(p) == IndexOf(StageOrder, p)

C6_Step ==
    /\ pc \notin {"done", "failed"}
    /\ pc' = StageOrder[Pos(pc) + 1] \/ pc' = "failed"
    /\ error' # "" <=> pc' = "failed"
    /\ pc' = "failed" => ~out_totals'.written /\ ~out_anomalies'.written
    /\ pc' # "failed" =>
          /\ trend'.shown <=> Pos(pc') > Pos("trend")
          /\ heat'.shown => Pos(pc') > Pos("heatmap")
          /\ anomalies'.ok <=> Pos(pc') > Pos("anomalies")
          /\ out_totals'.written <=> Pos(pc') > Pos("write_totals")
          /\ out_anomalies'.written <=> Pos(pc') > Pos("write_anomalies")

\* C6: every step of a run is the next stage of the fixed order load, clean,
\* summarize, vendor totals, monthly trend, anomaly detection, payment
\* frequency, heatmap, write totals, write anomalies, or the failure of the
\* current stage; after a failure no stage runs and no output file is written.
C6_StageOrder == [][C6_Step]_vars

C6_Witness ==
    /\ pc = "done"
    /\ out_totals.written /\ out_totals.content # <<>>
    /\ out_anomalies.written /\ out_anomalies.content # <<>>
    /\ trend.shown
    /\ heat.shown

NoDepartment == df.ok /\ ~HasColumn(df, DEPARTMENT)

AfterStages == {"heatmap", "write_totals", "write_anomalies"}

C9_Skip ==
    (NoDepartment /\ pc \in AfterStages) =>
        /\ pc' = StageOrder[Pos(pc) + 1]
        /\ heat' = NoChart
        /\ error' = ""

\* C9: with no DEPARTMENT column in the cleaned table the heatmap stage renders
\* nothing and raises nothing, and the run goes on to write both output files:
\* from the heatmap stage on, every stage can run, none fails, and the run
\* ends with both files written and no heatmap shown.
C9_NoDepartment ==
    /\ [][C9_Skip]_vars
    /\ []((NoDepartment /\ pc \in AfterStages) => ENABLED Next)
    /\ []((NoDepartment /\ pc = "done") =>
              (~heat.shown /\ out_totals.written /\ out_anomalies.written))

C9_Witness ==
    /\ pc = "done"
    /\ NoDepartment
    /\ df.rows # <<>>
    /\ ~heat.shown
    /\ out_totals.written
    /\ out_anomalies.written

NoRunDate == file.ok /\ ~HasColumn(normalize_columns(file), RUNDATE)

NothingProduced ==
    /\ report = <<>>
    /\ vendor_totals = <<>>
    /\ ~trend.shown
    /\ anomalies = NoFrame
    /\ freq = <<>>
    /\ ~heat.shown
    /\ ~out_totals.written
    /\ ~out_anomalies.written

\* C10 as claimed: a raw table with no RUNDATE column after normalization makes
\* clean_data end in the error of the required-field filter, and the run
\* aborts with nothing produced.
C10_FailsAtFilter ==
    NoRunDate =>
        /\ NothingProduced
        /\ pc \in {"load", "clean", "failed"}
        /\ pc = "failed" => error = "KeyError: dropna"

\* C10, amended: a raw table with no RUNDATE column after normalization makes
\* clean_data end in an error, at the required-field filter or at the vendor
\* step before it, and the run aborts with nothing produced.
C10_RunDateMandatory ==
    NoRunDate =>
        /\ NothingProduced
        /\ pc \in {"load", "clean", "failed"}
        /\ pc = "failed" =>
              error \in {"KeyError: dropna", "KeyError: VENDOR", "AttributeError: str"}

C10_Witness ==
    /\ NoRunDate
    /\ pc = "failed"
    /\ error = "KeyError: dropna"
    /\ HasColumn(normalize_columns(file), <<"RUN", "_", "DATE">>)
    /\ file.rows # <<>>

---------------------------------------------------------------------------
(* Properties of the analyses                                              *)

\* The run is past the stage: the stage has run.  The only failure after the
\* analyses is the heatmap's.
Past(stage) ==
    \/ pc # "failed" /\ Pos(pc) > Pos(stage)
    \/ pc = "failed" /\ error = "ValueError"

RECURSIVE SumVals(_)
SumVals(series) == IF series = <<>> THEN 0 ELSE Head(series).val + SumVals(Tail(series))

RowIdx == 1..Len(df.rows)
VendorAt(i) == Cell(df, df.rows[i], VENDOR).s
AmountAt(i) == Cell(df, df.rows[i], CHKSUBTOT).n
DeptAt(i) == Cell(df, df.rows[i], DEPARTMENT)

RECURSIVE SumAt(_)
SumAt(I) ==
    IF I = {} THEN 0
    ELSE LET i == CHOOSE j \in I : TRUE IN AmountAt(i) + SumAt(I \ {i})

\* The sum of the amounts of rows lo..hi of the cleaned table.
RECURSIVE SumRange(_, _)
SumRange(lo, hi) ==
    IF lo > hi THEN 0
    ELSE IF lo = hi THEN AmountAt(lo)
    ELSE LET mid == (lo + hi) \div 2 IN SumRange(lo, mid) + SumRange(mid + 1, hi)

\* C4: the values of the mapping returned by total_payments_by_vendor add up to
\* the sum of the amount column of the cleaned table.
C4_SumLaw == Past("totals") => SumVals(vendor_totals) = SumRange(1, Len(df.rows))

C4_Witness ==
    /\ pc = "done"
    /\ Len(df.rows) > Len(vendor_totals)
    /\ Len(vendor_totals) > 1
    /\ SumVals(vendor_totals) # 0

NonIncreasing(series) ==
    \A i \in 1..Len(series) - 1 : series[i].val >= series[i + 1].val

OnePerVendor(series) ==
    /\ {series[i].key : i \in 1..Len(series)} = {VendorAt(i) : i \in RowIdx}
    /\ Len(series) = Cardinality({VendorAt(i) : i \in RowIdx})

\* C8: total_payments_by_vendor returns one entry per distinct vendor of the
\* cleaned table, all of them, each with the sum of that vendor's amounts, in
\* non-increasing order of total; payment_frequency returns one entry per
\* distinct vendor with the number of that vendor's rows, in non-increasing
\* order of count.
C8_PerVendor ==
    /\ Past("totals") =>
          /\ OnePerVendor(vendor_totals)
          /\ NonIncreasing(vendor_totals)
          /\ \A k \in 1..Len(vendor_totals) :
                vendor_totals[k].val =
                    SumAt({i \in RowIdx : VendorAt(i) = vendor_totals[k].key})
    /\ Past("frequency") =>
          /\ OnePerVendor(freq)
          /\ NonIncreasing(freq)
          /\ \A k \in 1..Len(freq) :
                freq[k].val = Cardinality({i \in RowIdx : VendorAt(i) = freq[k].key})

C8_Witness ==
    /\ pc = "done"
    /\ Len(vendor_totals) > HeadRows
    /\ Len(freq) > HeadRows
    /\ out_totals.content = vendor_totals
    /\ \E k \in 1..Len(freq) : freq[k].val > 1

\* The j-th smallest amount of the cleaned table (j from 0).
OrderStat(j) ==
    CHOOSE v \in {AmountAt(i) : i \in RowIdx} :
        /\ Cardinality({i \in RowIdx : AmountAt(i) < v}) <= j
        /\ j < Cardinality({i \in RowIdx : AmountAt(i) <= v})

\* 100 times the 99th percentile: linear interpolation at position 0.99 * (n - 1).
Threshold100 ==
    LET n  == Len(df.rows)
        lo == (99 * (n - 1)) \div 100
        fr == (99 * (n - 1)) % 100
    IN  IF fr = 0 THEN 100 * OrderStat(lo)
        ELSE (100 - fr) * OrderStat(lo) + fr * OrderStat(lo + 1)

Flagged == {anomalies.rows[j].idx : j \in 1..Len(anomalies.rows)}

DistinctAmounts == \A i, j \in RowIdx : AmountAt(i) = AmountAt(j) => i = j

\* C5: detect_anomalies returns exactly the records whose amount strictly
\* exceeds the 99th-percentile threshold; and of a table of n = 100k rows with
\* distinct amounts it returns exactly the k rows with the largest amounts.
C5_AboveThreshold ==
    Past("anomalies") =>
        /\ anomalies.ok
        /\ anomalies.columns = df.columns
        /\ \A j \in 1..Len(anomalies.rows) : \E i \in RowIdx : anomalies.rows[j] = df.rows[i]
        /\ Cardinality(Flagged) = Len(anomalies.rows)
        /\ df.rows # <<>> =>
              LET t == Threshold100
              IN  \A i \in RowIdx : df.rows[i].idx \in Flagged <=> 100 * AmountAt(i) > t
        /\ (df.rows # <<>> /\ Len(df.rows) % 100 = 0 /\ DistinctAmounts) =>
              /\ Len(anomalies.rows) = Len(df.rows) \div 100
              /\ \A i, j \in RowIdx :
                    (df.rows[i].idx \in Flagged /\ df.rows[j].idx \notin Flagged)
                        => AmountAt(i) > AmountAt(j)

C5_Witness ==
    /\ pc = "done"
    /\ Len(df.rows) = 200
    /\ Len(anomalies.rows) = 2
    /\ DistinctAmounts

Take(seq, k) == SubSeq(seq, 1, IF Len(seq) < k THEN Len(seq) ELSE k)

HeatCells(vs, ds) ==
    [i \in 1..Len(vs) |-> [j \in 1..Len(ds) |->
        SumAt({r \in RowIdx : VendorAt(r) = vs[i] /\ DeptAt(r) = Text(ds[j])})]]

Ascending(keys) == \A i, j \in 1..Len(keys) : i < j => LexLess(keys[i], keys[j])

\* C7 as claimed: the heatmap shows the first 20 distinct vendors in the order
\* of their first appearance in the cleaned table, each cell the summed amount
\* of the vendor and department, zero where there is none.
C7_TableOrder ==
    heat.shown =>
        /\ heat.index = Take(FirstSeen(df, VENDOR), HeadRows)
        /\ heat.values = HeatCells(heat.index, heat.columns)

\* C7, amended: the heatmap shows the first 20, in ascending order of vendor
\* name, of the distinct vendors that have a row with a department; its columns
\* are the departments in ascending order; each cell is the summed amount of
\* the vendor and department, zero where there is none.
C7_SortedOrder ==
    heat.shown =>
        LET W     == {VendorAt(i) : i \in {r \in RowIdx : ~isna(DeptAt(r))}}
            shown == {heat.index[i] : i \in 1..Len(heat.index)}
        IN  /\ Ascending(heat.index)
            /\ shown \subseteq W
            /\ Len(heat.index) = (IF Cardinality(W) < HeadRows THEN Cardinality(W) ELSE HeadRows)
            /\ \A w \in W \ shown : \A v \in shown : LexLess(v, w)
            /\ Ascending(heat.columns)
            /\ {heat.columns[j] : j \in 1..Len(heat.columns)} =
                   {DeptAt(r).s : r \in {q \in RowIdx : ~isna(DeptAt(q))}}
            /\ heat.values = HeatCells(heat.index, heat.columns)

C7_Witness ==
    /\ heat.shown
    /\ Len(heat.index) = HeadRows
    /\ Len(FirstSeen(df, VENDOR)) > HeadRows
    /\ ~InSeq(heat.index, VendorAt(1))
    /\ \E i \in 1..HeadRows : \E j \in 1..Len(heat.columns) : heat.values[i][j] = 0

====
